---- MODULE Spec2Model ----
(***************************************************************************)
(* Five mock HTTP services (user, calendar, outlook, teams, onedrive).     *)
(* Each keeps module-level lists of records and serves them through Flask  *)
(* handlers.  The lists are the state; every handler is one action of the  *)
(* sequential specification Spec.  SpecPar runs the three appending        *)
(* handlers on parallel threads, split where a thread switch can fall      *)
(* between reading max(ids) and list.append.                               *)
(*                                                                         *)
(* Text that the code parses or builds (timestamps) is a sequence of       *)
(* chunks, e.g. <<"2024-08-22", "T", "09:00:00", "Z">>, so that replace,   *)
(* fromisoformat and isoformat compute on it.                              *)
(***************************************************************************)
EXTENDS Integers, Sequences, FiniteSets, TLC

VARIABLES USERS, EVENTS, EMAILS, TEAMS, MESSAGES, MEETINGS, FILES, FOLDERS,
          req, resp, pc, local, answers

stores == <<USERS, EVENTS, EMAILS, TEAMS, MESSAGES, MEETINGS, FILES, FOLDERS>>
threadvars == <<pc, local, answers>>
vars == <<USERS, EVENTS, EMAILS, TEAMS, MESSAGES, MEETINGS, FILES, FOLDERS,
          req, resp, pc, local, answers>>

(* Bounds of the model. *)
MaxAppends == 2

Threads == {"t1", "t2"}

(***************************************************************************)
(* Dates and times.  A date is its ordinal; an instant is a UTC date and   *)
(* hour.  The tables give the meaning of the chunks of a timestamp text.   *)
(***************************************************************************)
DateChunk == <<"2024-08-21", "2024-08-22", "2024-08-23", "2024-08-24">>
TimeChunk == [h \in 0..23 |->
                CASE h = 1 -> "01:00:00"
                  [] h = 3 -> "03:00:00"
                  [] h = 9 -> "09:00:00"
                  [] h = 11 -> "11:00:00"
                  [] h = 14 -> "14:00:00"
                  [] h = 22 -> "22:00:00"
                  [] h = 23 -> "23:30:00"
                  [] OTHER -> "--:--:--"]
OffsetChunk == ("+00:00" :> 0) @@ ("-05:00" :> (0 - 5)) @@ ("+05:00" :> 5)

IsDateChunk(c) == \E d \in DOMAIN DateChunk : DateChunk[d] = c
IsTimeChunk(c) == \E h \in 0..23 : TimeChunk[h] = c /\ c # "--:--:--"
toordinal(c) == CHOOSE d \in DOMAIN DateChunk : DateChunk[d] = c
hourof(c) == CHOOSE h \in 0..23 : TimeChunk[h] = c

(* The clock readings a request may see (UTC), and the offsets of the server's
   local time from UTC. *)
Instants == {[date |-> 2, hour |-> 22], [date |-> 3, hour |-> 3]}
ServerOffsets == {0 - 5, 0, 5}

(* datetime.utcnow().isoformat() *)
isoformat(now) == <<DateChunk[now.date], "T", TimeChunk[now.hour]>>
(* datetime.now().date(): the date of the server's local time *)
localdate(now, offset) == now.date + ((now.hour + offset) \div 24)
(* date.isoformat() *)
dateisoformat(d) == IF d \in DOMAIN DateChunk THEN DateChunk[d] ELSE "2024-xx-xx"

(* str.replace(old, new), chunk by chunk *)
replace(s, old, new) == [i \in 1..Len(s) |-> IF s[i] = old THEN new ELSE s[i]]

(* datetime.fromisoformat: whether it accepts the text ("Z" is not an offset
   it knows, which is why the handler rewrites it), and the value it returns *)
canparse(s) ==
    /\ Len(s) \in {1, 3, 4}
    /\ IsDateChunk(s[1])
    /\ Len(s) >= 3 => (s[2] = "T" /\ IsTimeChunk(s[3]))
    /\ Len(s) = 4 => s[4] \in DOMAIN OffsetChunk
fromisoformat(s) ==
    [date |-> toordinal(s[1]),
     hour |-> IF Len(s) >= 3 THEN hourof(s[3]) ELSE 0,
     utcoffset |-> IF Len(s) = 4 THEN OffsetChunk[s[4]] ELSE 0]
(* datetime.date() *)
date(dt) == dt.date

(***************************************************************************)
(* Sample data: the lists each service starts with.                        *)
(***************************************************************************)
(* A service started with no sample users. *)
SampleUSERS_none == <<>>

SampleUSERS == <<
    [id |-> 1, name |-> "John Doe", email |-> "john.doe@company.com", role |-> "admin"],
    [id |-> 2, name |-> "Jane Smith", email |-> "jane.smith@company.com", role |-> "user"],
    [id |-> 3, name |-> "Bob Johnson", email |-> "bob.johnson@company.com", role |-> "user"],
    [id |-> 4, name |-> "Alice Brown", email |-> "alice.brown@company.com", role |-> "manager"] >>

SampleEVENTS == <<
    [id |-> 1, title |-> "Team Meeting",
     start |-> <<"2024-08-22", "T", "09:00:00", "Z">>,
     end |-> <<"2024-08-22", "T", "10:00:00", "Z">>,
     attendees |-> <<"john.doe@company.com", "jane.smith@company.com">>],
    [id |-> 2, title |-> "Project Review",
     start |-> <<"2024-08-22", "T", "14:00:00", "Z">>,
     end |-> <<"2024-08-22", "T", "15:30:00", "Z">>,
     attendees |-> <<"alice.brown@company.com", "bob.johnson@company.com">>],
    [id |-> 3, title |-> "Client Presentation",
     start |-> <<"2024-08-23", "T", "11:00:00", "Z">>,
     end |-> <<"2024-08-23", "T", "12:00:00", "Z">>,
     attendees |-> <<"john.doe@company.com", "alice.brown@company.com">>] >>

SampleEMAILS == <<
    [id |-> 1, from |-> "client@example.com", to |-> "john.doe@company.com",
     subject |-> "Project Update Required",
     body |-> "Please provide an update on the current project status.",
     received |-> <<"2024-08-21", "T", "09:15:00", "Z">>,
     read |-> FALSE, important |-> TRUE],
    [id |-> 2, from |-> "hr@company.com", to |-> "all@company.com",
     subject |-> "Team Building Event Next Week",
     body |-> "Don't forget about our team building event scheduled for next Friday.",
     received |-> <<"2024-08-21", "T", "11:30:00", "Z">>,
     read |-> TRUE, important |-> FALSE],
    [id |-> 3, from |-> "vendor@supplier.com", to |-> "alice.brown@company.com",
     subject |-> "Invoice #12345",
     body |-> "Please find attached invoice for your recent order.",
     received |-> <<"2024-08-21", "T", "14:20:00", "Z">>,
     read |-> FALSE, important |-> FALSE] >>

SampleTEAMS == <<
    [id |-> 1, name |-> "Development Team",
     members |-> <<"john.doe@company.com", "jane.smith@company.com", "bob.johnson@company.com">>,
     created |-> <<"2024-01-15", "T", "10:00:00", "Z">>],
    [id |-> 2, name |-> "Marketing Team",
     members |-> <<"alice.brown@company.com", "jane.smith@company.com">>,
     created |-> <<"2024-02-01", "T", "14:30:00", "Z">>] >>

SampleMESSAGES == <<
    [id |-> 1, team_id |-> 1, from |-> "john.doe@company.com",
     message |-> "Good morning everyone! Ready for today's sprint review?",
     timestamp |-> <<"2024-08-21", "T", "08:30:00", "Z">>, type |-> "text"],
    [id |-> 2, team_id |-> 1, from |-> "jane.smith@company.com",
     message |-> "Yes! I've prepared the demo for the new features.",
     timestamp |-> <<"2024-08-21", "T", "08:32:00", "Z">>, type |-> "text"],
    [id |-> 3, team_id |-> 2, from |-> "alice.brown@company.com",
     message |-> "The new campaign metrics look promising!",
     timestamp |-> <<"2024-08-21", "T", "10:15:00", "Z">>, type |-> "text"] >>

SampleMEETINGS == <<
    [id |-> 1, team_id |-> 1, title |-> "Daily Standup",
     start |-> <<"2024-08-22", "T", "09:00:00", "Z">>, duration |-> 30,
     participants |-> <<"john.doe@company.com", "jane.smith@company.com">>] >>

SampleFILES == <<
    [id |-> 1, name |-> "Project Proposal.docx", size |-> 2048576, type |-> "document",
     modified |-> <<"2024-08-20", "T", "10:30:00", "Z">>,
     owner |-> "john.doe@company.com", shared |-> TRUE],
    [id |-> 2, name |-> "Budget Report.xlsx", size |-> 1024000, type |-> "spreadsheet",
     modified |-> <<"2024-08-21", "T", "14:15:00", "Z">>,
     owner |-> "alice.brown@company.com", shared |-> FALSE],
    [id |-> 3, name |-> "Presentation.pptx", size |-> 5242880, type |-> "presentation",
     modified |-> <<"2024-08-21", "T", "16:45:00", "Z">>,
     owner |-> "jane.smith@company.com", shared |-> TRUE] >>

SampleFOLDERS == <<
    [id |-> 1, name |-> "Projects", file_count |-> 15],
    [id |-> 2, name |-> "Reports", file_count |-> 8],
    [id |-> 3, name |-> "Templates", file_count |-> 12] >>

(***************************************************************************)
(* Requests.  request.get_json() gives None or a JSON object; an object is *)
(* a function from the fields it holds to their values.                    *)
(***************************************************************************)
NoJson == [isNone |-> TRUE, obj |-> <<>>]
Json(f) == [isNone |-> FALSE, obj |-> f]

(* `not data` *)
falsy(data) == data.isNone \/ DOMAIN data.obj = {}
(* `key in data` *)
has(data, key) == key \in DOMAIN data.obj
(* data.get(key, default) *)
get(data, key, default) == IF key \in DOMAIN data.obj THEN data.obj[key] ELSE default

UserBodies == {
    NoJson,
    Json(<<>>),
    Json("email" :> "test@company.com"),
    Json("name" :> "Test"),
    Json(("name" :> "Test") @@ ("email" :> "test@company.com") @@ ("role" :> "admin")) }

StartZ == <<"2024-08-23", "T", "01:00:00", "Z">>
StartOffset == <<"2024-08-22", "T", "23:30:00", "-05:00">>
StartText == <<"tomorrow">>

EventBodies == {
    NoJson,
    Json(<<>>),
    Json("title" :> "Review"),
    Json("start" :> StartZ),
    Json(("title" :> "Review") @@ ("start" :> StartZ)),
    Json(("title" :> "Review") @@ ("start" :> StartOffset)
         @@ ("end" :> <<"2024-08-23", "T", "01:00:00", "-05:00">>)),
    Json(("title" :> "Review") @@ ("start" :> StartText)
         @@ ("attendees" :> <<"bob.johnson@company.com">>)) }

EmailBodies == {
    NoJson,
    Json(<<>>),
    Json("to" :> "jane.smith@company.com"),
    Json("subject" :> "Hello"),
    Json(("to" :> "jane.smith@company.com") @@ ("subject" :> "Hello")),
    Json(("to" :> "jane.smith@company.com") @@ ("subject" :> "Hello")
         @@ ("from" :> "bob.johnson@company.com") @@ ("body" :> "Hi")) }

MessageBodies == {
    NoJson,
    Json(<<>>),
    Json("from" :> "bob.johnson@company.com"),
    Json("message" :> "Hello team"),
    Json(("message" :> "Hello team") @@ ("from" :> "bob.johnson@company.com")) }

(* The integers a path parameter takes. *)
PathIds == {2, 5, 999}

Services == {"user", "calendar", "outlook", "teams", "onedrive"}

Request(svc, method, op, id, data) ==
    [svc |-> svc, method |-> method, op |-> op, id |-> id, data |-> data]

(***************************************************************************)
(* Responses.                                                              *)
(***************************************************************************)
ok(body) == [status |-> 200, body |-> body]
created(body) == [status |-> 201, body |-> body]
(* The status left out of the return: Flask then answers 200. *)
badrequest_nostatus(message) == [status |-> 200, body |-> [error |-> message]]
(* jsonify({'error': message}), 400 *)
badrequest(message) == [status |-> 400, body |-> [error |-> message]]
(* jsonify({'error': message}), 404 *)
notfound(message) == [status |-> 404, body |-> [error |-> message]]
(* An exception leaving a handler: the user service answers through its own
   500 handler, the others with the framework's page. *)
internalerror(svc) ==
    IF svc = "user"
    THEN [status |-> 500, body |-> [error |-> "Internal server error"]]
    ELSE [status |-> 500, body |-> [html |-> "Internal Server Error"]]

(***************************************************************************)
(* List helpers.                                                           *)
(***************************************************************************)
ids(coll) == {coll[i].id : i \in 1..Len(coll)}
max(S) == CHOOSE x \in S : \A y \in S : y <= x
(* The + 1 left out. *)
nextid_same(coll) == max(ids(coll))
(* max([r['id'] for r in coll]) + 1 *)
nextid(coll) == max(ids(coll)) + 1
(* list.insert(0, record) in place of append. *)
append_front(coll, record) == <<record>> \o coll
(* list.append *)
append(coll, record) == Append(coll, record)
(* next((r for r in coll if r['id'] == id), None): the first match, or nothing *)
found(coll, id) == \E i \in 1..Len(coll) : coll[i].id = id
first(coll, id) ==
    coll[CHOOSE i \in 1..Len(coll) :
            /\ coll[i].id = id
            /\ \A j \in 1..(i - 1) : coll[j].id # id]
RECURSIVE sum(_)
sum(s) == IF s = <<>> THEN 0 ELSE Head(s) + sum(Tail(s))
setof(s) == {s[i] : i \in 1..Len(s)}
RECURSIVE extend(_)
extend(lists) == IF lists = <<>> THEN <<>> ELSE Head(lists) \o extend(Tail(lists))

(***************************************************************************)
(* State after import of the five modules.                                 *)
(***************************************************************************)
(* What a thread holds between the steps of a handler: the handler it runs,
   the status it answered (0 while it runs) and the record it built. *)
Idle == [op |-> "none", status |-> 0, new |-> [id |-> 0]]

NoRequest == Request("none", "none", "none", 0, NoJson)

Init ==
    /\ USERS = SampleUSERS
    /\ EVENTS = SampleEVENTS
    /\ EMAILS = SampleEMAILS
    /\ TEAMS = SampleTEAMS
    /\ MESSAGES = SampleMESSAGES
    /\ MEETINGS = SampleMEETINGS
    /\ FILES = SampleFILES
    /\ FOLDERS = SampleFOLDERS
    /\ req = NoRequest
    /\ resp = ok([none |-> TRUE])
    /\ pc = [t \in Threads |-> "idle"]
    /\ local = [t \in Threads |-> Idle]
    /\ answers = <<>>

(* Records appended since start, over the lists that grow. *)
Appended ==
    (Len(USERS) - Len(SampleUSERS)) + (Len(EVENTS) - Len(SampleEVENTS))
    + (Len(MESSAGES) - Len(SampleMESSAGES))

(***************************************************************************)
(* /health and / of every service.                                         *)
(***************************************************************************)
ServiceName == [svc \in Services |-> svc \o "-service"]
DefaultPort ==
    ("user" :> "5001") @@ ("calendar" :> "5002") @@ ("onedrive" :> "5003")
    @@ ("outlook" :> "5004") @@ ("teams" :> "5005")
Title ==
    ("user" :> "User Service API") @@ ("calendar" :> "Calendar Service API")
    @@ ("onedrive" :> "OneDrive Service API") @@ ("outlook" :> "Outlook Service API")
    @@ ("teams" :> "Teams Service API")
Endpoints ==
    ("user" :> <<"GET /health - Health check", "GET /users - List all users",
                 "GET /users/<id> - Get user by ID", "POST /users - Create new user">>)
    @@ ("calendar" :> <<"GET /health - Health check", "GET /events - List all events",
                 "GET /events/<id> - Get event by ID", "POST /events - Create new event",
                 "GET /events/today - Get today's events">>)
    @@ ("outlook" :> <<"GET /health - Health check", "GET /emails - List all emails",
                 "GET /emails/<id> - Get email by ID", "GET /emails/unread - Get unread emails",
                 "GET /emails/important - Get important emails",
                 "POST /emails/send - Send new email">>)
    @@ ("teams" :> <<"GET /health - Health check", "GET /teams - List all teams",
                 "GET /teams/<id> - Get team by ID",
                 "GET /teams/<id>/messages - Get team messages",
                 "GET /meetings - List all meetings",
                 "POST /teams/<id>/messages - Send message to team">>)
    @@ ("onedrive" :> <<"GET /health - Health check", "GET /files - List all files",
                 "GET /files/<id> - Get file by ID", "GET /folders - List all folders",
                 "GET /files/shared - Get shared files", "GET /storage - Get storage info">>)

health ==
    \E svc \in Services, now \in Instants :
        /\ req' = Request(svc, "GET", "health", 0, NoJson)
        /\ resp' = ok([status |-> "healthy", service |-> ServiceName[svc], version |-> "1.0.0",
                        timestamp |-> isoformat(now), port |-> DefaultPort[svc]])
        /\ UNCHANGED <<stores, threadvars>>

home ==
    \E svc \in Services :
        /\ req' = Request(svc, "GET", "home", 0, NoJson)
        /\ resp' = ok([message |-> Title[svc], version |-> "1.0.0",
                        service |-> ServiceName[svc], endpoints |-> Endpoints[svc]])
        /\ UNCHANGED <<stores, threadvars>>

(***************************************************************************)
(* user service                                                            *)
(***************************************************************************)
get_users ==
    /\ req' = Request("user", "GET", "get_users", 0, NoJson)
    /\ resp' = ok([users |-> USERS, count |-> Len(USERS)])
    /\ UNCHANGED <<stores, threadvars>>

get_user ==
    \E user_id \in PathIds :
        /\ req' = Request("user", "GET", "get_user", user_id, NoJson)
        /\ resp' = IF found(USERS, user_id) THEN ok(first(USERS, user_id))
                    ELSE notfound("User not found")
        /\ UNCHANGED <<stores, threadvars>>

user_invalid(data) == falsy(data) \/ ~has(data, "name")
new_user(data, coll) ==
    [id |-> nextid(coll), name |-> data.obj["name"],
     email |-> get(data, "email", ""), role |-> get(data, "role", "user")]

create_user ==
    /\ Appended < MaxAppends
    /\ \E data \in UserBodies :
        /\ req' = Request("user", "POST", "create_user", 0, data)
        /\ IF user_invalid(data)
           THEN resp' = badrequest("Name is required") /\ UNCHANGED USERS
           ELSE IF USERS = <<>>
           THEN resp' = internalerror("user") /\ UNCHANGED USERS
           ELSE /\ USERS' = append(USERS, new_user(data, USERS))
                /\ resp' = created(new_user(data, USERS))
    /\ UNCHANGED <<EVENTS, EMAILS, TEAMS, MESSAGES, MEETINGS, FILES, FOLDERS, threadvars>>

(***************************************************************************)
(* calendar service                                                        *)
(***************************************************************************)
get_events ==
    /\ req' = Request("calendar", "GET", "get_events", 0, NoJson)
    /\ resp' = ok([events |-> EVENTS, count |-> Len(EVENTS)])
    /\ UNCHANGED <<stores, threadvars>>

get_event ==
    \E event_id \in PathIds :
        /\ req' = Request("calendar", "GET", "get_event", event_id, NoJson)
        /\ resp' = IF found(EVENTS, event_id) THEN ok(first(EVENTS, event_id))
                    ELSE notfound("Event not found")
        /\ UNCHANGED <<stores, threadvars>>

(* datetime.fromisoformat(event['start'].replace('Z', '+00:00')).date() *)
startparses(event) == canparse(replace(event.start, "Z", "+00:00"))
event_date(event) == date(fromisoformat(replace(event.start, "Z", "+00:00")))
today_events(coll, today) == SelectSeq(coll, LAMBDA event : event_date(event) = today)

(* The loop parses every start in turn; one it cannot parse raises ValueError
   out of the handler. *)
today_response(coll, today) ==
    IF \E i \in 1..Len(coll) : ~startparses(coll[i])
    THEN internalerror("calendar")
    ELSE ok([events |-> today_events(coll, today),
             date |-> dateisoformat(today),
             count |-> Len(today_events(coll, today))])

get_today_events ==
    \E now \in Instants, offset \in ServerOffsets :
        /\ req' = Request("calendar", "GET", "get_today_events", 0, NoJson)
        /\ resp' = today_response(EVENTS, localdate(now, offset))
        /\ UNCHANGED <<stores, threadvars>>

event_invalid(data) == falsy(data) \/ ~has(data, "title") \/ ~has(data, "start")
new_event(data, coll) ==
    [id |-> nextid(coll), title |-> data.obj["title"], start |-> data.obj["start"],
     end |-> get(data, "end", data.obj["start"]),
     attendees |-> get(data, "attendees", <<>>)]

create_event ==
    /\ Appended < MaxAppends
    /\ \E data \in EventBodies :
        /\ req' = Request("calendar", "POST", "create_event", 0, data)
        /\ IF event_invalid(data)
           THEN resp' = badrequest("Title and start time are required") /\ UNCHANGED EVENTS
           ELSE IF EVENTS = <<>>
           THEN resp' = internalerror("calendar") /\ UNCHANGED EVENTS
           ELSE /\ EVENTS' = append(EVENTS, new_event(data, EVENTS))
                /\ resp' = created(new_event(data, EVENTS))
    /\ UNCHANGED <<USERS, EMAILS, TEAMS, MESSAGES, MEETINGS, FILES, FOLDERS, threadvars>>

(***************************************************************************)
(* outlook service                                                         *)
(***************************************************************************)
unread(coll) == SelectSeq(coll, LAMBDA e : ~e.read)
important(coll) == SelectSeq(coll, LAMBDA e : e.important)

get_emails ==
    /\ req' = Request("outlook", "GET", "get_emails", 0, NoJson)
    /\ resp' = ok([emails |-> EMAILS, count |-> Len(EMAILS),
                    unread_count |-> Len(unread(EMAILS))])
    /\ UNCHANGED <<stores, threadvars>>

get_email ==
    \E email_id \in PathIds :
        /\ req' = Request("outlook", "GET", "get_email", email_id, NoJson)
        /\ resp' = IF found(EMAILS, email_id) THEN ok(first(EMAILS, email_id))
                    ELSE notfound("Email not found")
        /\ UNCHANGED <<stores, threadvars>>

get_unread_emails ==
    /\ req' = Request("outlook", "GET", "get_unread_emails", 0, NoJson)
    /\ resp' = ok([emails |-> unread(EMAILS), count |-> Len(unread(EMAILS))])
    /\ UNCHANGED <<stores, threadvars>>

get_important_emails ==
    /\ req' = Request("outlook", "GET", "get_important_emails", 0, NoJson)
    /\ resp' = ok([emails |-> important(EMAILS), count |-> Len(important(EMAILS))])
    /\ UNCHANGED <<stores, threadvars>>

email_invalid(data) == falsy(data) \/ ~has(data, "to") \/ ~has(data, "subject")
new_email(data, coll, now) ==
    [id |-> nextid(coll), from |-> get(data, "from", "user@company.com"),
     to |-> data.obj["to"], subject |-> data.obj["subject"],
     body |-> get(data, "body", ""),
     sent |-> isoformat(now) \o <<"Z">>, status |-> "sent"]

(* The handler builds new_email and returns it; it has no EMAILS.append. *)
send_email ==
    \E data \in EmailBodies, now \in Instants :
        /\ req' = Request("outlook", "POST", "send_email", 0, data)
        /\ resp' = IF email_invalid(data) THEN badrequest("To and subject are required")
                    ELSE IF EMAILS = <<>> THEN internalerror("outlook")
                    ELSE created([message |-> "Email sent successfully",
                                  email |-> new_email(data, EMAILS, now)])
        /\ UNCHANGED <<stores, threadvars>>

get_email_stats ==
    /\ req' = Request("outlook", "GET", "get_email_stats", 0, NoJson)
    /\ resp' = ok([total_emails |-> Len(EMAILS),
                    unread_emails |-> Len(unread(EMAILS)),
                    important_emails |-> Len(important(EMAILS)),
                    read_emails |-> Len(EMAILS) - Len(unread(EMAILS))])
    /\ UNCHANGED <<stores, threadvars>>

(***************************************************************************)
(* teams service                                                           *)
(***************************************************************************)
get_teams ==
    /\ req' = Request("teams", "GET", "get_teams", 0, NoJson)
    /\ resp' = ok([teams |-> TEAMS, count |-> Len(TEAMS)])
    /\ UNCHANGED <<stores, threadvars>>

get_team ==
    \E team_id \in PathIds :
        /\ req' = Request("teams", "GET", "get_team", team_id, NoJson)
        /\ resp' = IF found(TEAMS, team_id) THEN ok(first(TEAMS, team_id))
                    ELSE notfound("Team not found")
        /\ UNCHANGED <<stores, threadvars>>

team_messages(coll, team_id) == SelectSeq(coll, LAMBDA m : m.team_id = team_id)

get_team_messages ==
    \E team_id \in PathIds :
        /\ req' = Request("teams", "GET", "get_team_messages", team_id, NoJson)
        /\ resp' = ok([messages |-> team_messages(MESSAGES, team_id),
                        count |-> Len(team_messages(MESSAGES, team_id)),
                        team_id |-> team_id])
        /\ UNCHANGED <<stores, threadvars>>

message_invalid(data) == falsy(data) \/ ~has(data, "message")
(* The team looked up by position in place of id: any positive id passes. *)
team_missing_range(coll, team_id) == team_id < 1
(* The lookup left out. *)
team_missing_never(coll, team_id) == FALSE
(* team = next((t for t in TEAMS if t['id'] == team_id), None); `if not team` *)
team_missing(coll, team_id) == ~found(coll, team_id)
new_message(data, coll, team_id, now) ==
    [id |-> nextid(coll), team_id |-> team_id,
     from |-> get(data, "from", "user@company.com"),
     message |-> data.obj["message"],
     timestamp |-> isoformat(now) \o <<"Z">>, type |-> "text"]

send_team_message ==
    /\ Appended < MaxAppends
    /\ \E team_id \in PathIds, data \in MessageBodies, now \in Instants :
        /\ req' = Request("teams", "POST", "send_team_message", team_id, data)
        /\ IF message_invalid(data)
           THEN resp' = badrequest("Message content is required") /\ UNCHANGED MESSAGES
           ELSE IF team_missing(TEAMS, team_id)
           THEN resp' = notfound("Team not found") /\ UNCHANGED MESSAGES
           ELSE IF MESSAGES = <<>>
           THEN resp' = internalerror("teams") /\ UNCHANGED MESSAGES
           ELSE /\ MESSAGES' = append(MESSAGES, new_message(data, MESSAGES, team_id, now))
                /\ resp' = created(new_message(data, MESSAGES, team_id, now))
    /\ UNCHANGED <<USERS, EVENTS, EMAILS, TEAMS, MEETINGS, FILES, FOLDERS, threadvars>>

get_meetings ==
    /\ req' = Request("teams", "GET", "get_meetings", 0, NoJson)
    /\ resp' = ok([meetings |-> MEETINGS, count |-> Len(MEETINGS)])
    /\ UNCHANGED <<stores, threadvars>>

all_members(coll) == extend([i \in 1..Len(coll) |-> coll[i].members])

get_stats ==
    /\ req' = Request("teams", "GET", "get_stats", 0, NoJson)
    /\ resp' = ok([total_teams |-> Len(TEAMS), total_messages |-> Len(MESSAGES),
                    total_meetings |-> Len(MEETINGS),
                    unique_members |-> Cardinality(setof(all_members(TEAMS))),
                    active_teams |-> Len(TEAMS)])
    /\ UNCHANGED <<stores, threadvars>>

(***************************************************************************)
(* onedrive service                                                        *)
(***************************************************************************)
shared(coll) == SelectSeq(coll, LAMBDA f : f.shared)

get_files ==
    /\ req' = Request("onedrive", "GET", "get_files", 0, NoJson)
    /\ resp' = ok([files |-> FILES, count |-> Len(FILES)])
    /\ UNCHANGED <<stores, threadvars>>

get_file ==
    \E file_id \in PathIds :
        /\ req' = Request("onedrive", "GET", "get_file", file_id, NoJson)
        /\ resp' = IF found(FILES, file_id) THEN ok(first(FILES, file_id))
                    ELSE notfound("File not found")
        /\ UNCHANGED <<stores, threadvars>>

get_folders ==
    /\ req' = Request("onedrive", "GET", "get_folders", 0, NoJson)
    /\ resp' = ok([folders |-> FOLDERS, count |-> Len(FOLDERS)])
    /\ UNCHANGED <<stores, threadvars>>

get_shared_files ==
    /\ req' = Request("onedrive", "GET", "get_shared_files", 0, NoJson)
    /\ resp' = ok([files |-> shared(FILES), count |-> Len(shared(FILES))])
    /\ UNCHANGED <<stores, threadvars>>

(* round(total_size / 1024 / 1024, 2), in hundredths of a megabyte *)
round2mb(bytes) ==
    LET q == (bytes * 100) \div (1024 * 1024)
        r == (bytes * 100) % (1024 * 1024)
    IN  IF 2 * r > 1024 * 1024 \/ (2 * r = 1024 * 1024 /\ q % 2 = 1) THEN q + 1 ELSE q
total_size(coll) == sum([i \in 1..Len(coll) |-> coll[i].size])

get_storage_info ==
    /\ req' = Request("onedrive", "GET", "get_storage_info", 0, NoJson)
    /\ resp' = ok([total_files |-> Len(FILES),
                    total_size_bytes |-> total_size(FILES),
                    total_size_mb |-> [hundredths |-> round2mb(total_size(FILES))],
                    folders |-> Len(FOLDERS),
                    shared_files |-> Len(shared(FILES))])
    /\ UNCHANGED <<stores, threadvars>>

(***************************************************************************)
(* Requests served one at a time.                                          *)
(***************************************************************************)
Next ==
    \/ health
    \/ home
    \/ get_users
    \/ get_user
    \/ create_user
    \/ get_events
    \/ get_event
    \/ get_today_events
    \/ create_event
    \/ get_emails
    \/ get_email
    \/ get_unread_emails
    \/ get_important_emails
    \/ send_email
    \/ get_email_stats
    \/ get_teams
    \/ get_team
    \/ get_team_messages
    \/ send_team_message
    \/ get_meetings
    \/ get_stats
    \/ get_files
    \/ get_file
    \/ get_folders
    \/ get_shared_files
    \/ get_storage_info

Spec == Init /\ [][Next]_vars

(***************************************************************************)
(* Requests served in parallel (app.run serves each request on its own     *)
(* thread).  A handler that appends first builds the new record, reading   *)
(* max(ids) + 1, and then appends it; another thread can run in between.   *)
(***************************************************************************)
InFlight == Cardinality({t \in Threads : pc[t] = "append"})

(* The first step: validation, then the record is built from the list as it
   is now. *)
Begins(t, op, invalid, missing, empty, new) ==
    /\ pc[t] = "idle"
    /\ Appended + InFlight < MaxAppends
    /\ IF invalid THEN local' = [local EXCEPT ![t] = [op |-> op, status |-> 400, new |-> [id |-> 0]]]
       ELSE IF missing THEN local' = [local EXCEPT ![t] = [op |-> op, status |-> 404, new |-> [id |-> 0]]]
       ELSE IF empty THEN local' = [local EXCEPT ![t] = [op |-> op, status |-> 500, new |-> [id |-> 0]]]
       ELSE local' = [local EXCEPT ![t] = [op |-> op, status |-> 0, new |-> new]]
    /\ pc' = [pc EXCEPT ![t] = IF invalid \/ missing \/ empty THEN "idle" ELSE "append"]

(* The second step: list.append, and the record goes out with status 201. *)
Answers(t, op, coll) ==
    /\ pc[t] = "append"
    /\ local[t].op = op
    /\ pc' = [pc EXCEPT ![t] = "idle"]
    /\ local' = [local EXCEPT ![t].status = 201]
    /\ answers' = Append(answers, [coll |-> coll, id |-> local[t].new.id])

create_user_build ==
    \E t \in Threads, data \in UserBodies :
        /\ Begins(t, "create_user", user_invalid(data), FALSE, USERS = <<>>,
                  new_user(data, USERS))
        /\ UNCHANGED <<stores, req, resp, answers>>

create_user_append ==
    \E t \in Threads :
        /\ Answers(t, "create_user", "USERS")
        /\ USERS' = append(USERS, local[t].new)
        /\ UNCHANGED <<EVENTS, EMAILS, TEAMS, MESSAGES, MEETINGS, FILES, FOLDERS, req, resp>>

create_event_build ==
    \E t \in Threads, data \in EventBodies :
        /\ Begins(t, "create_event", event_invalid(data), FALSE, EVENTS = <<>>,
                  new_event(data, EVENTS))
        /\ UNCHANGED <<stores, req, resp, answers>>

create_event_append ==
    \E t \in Threads :
        /\ Answers(t, "create_event", "EVENTS")
        /\ EVENTS' = append(EVENTS, local[t].new)
        /\ UNCHANGED <<USERS, EMAILS, TEAMS, MESSAGES, MEETINGS, FILES, FOLDERS, req, resp>>

send_team_message_build ==
    \E t \in Threads, team_id \in PathIds, data \in MessageBodies, now \in Instants :
        /\ Begins(t, "send_team_message", message_invalid(data),
                  team_missing(TEAMS, team_id), MESSAGES = <<>>,
                  new_message(data, MESSAGES, team_id, now))
        /\ UNCHANGED <<stores, req, resp, answers>>

send_team_message_append ==
    \E t \in Threads :
        /\ Answers(t, "send_team_message", "MESSAGES")
        /\ MESSAGES' = append(MESSAGES, local[t].new)
        /\ UNCHANGED <<USERS, EVENTS, EMAILS, TEAMS, MEETINGS, FILES, FOLDERS, req, resp>>

NextPar ==
    \/ create_user_build
    \/ create_user_append
    \/ create_event_build
    \/ create_event_append
    \/ send_team_message_build
    \/ send_team_message_append

SpecPar == Init /\ [][NextPar]_vars

(***************************************************************************)
(* Properties.                                                             *)
(***************************************************************************)
postops == {"create_user", "create_event", "send_email", "send_team_message"}
required(op) ==
    CASE op = "create_user" -> {"name"}
      [] op = "create_event" -> {"title", "start"}
      [] op = "send_email" -> {"to", "subject"}
      [] op = "send_team_message" -> {"message"}
lacks(r) ==
    r.data.isNone \/ DOMAIN r.data.obj = {} \/ ~(required(r.op) \subseteq DOMAIN r.data.obj)
teamids == {TEAMS[i].id : i \in 1..Len(TEAMS)}
(* A create/send request with its required fields, and for a message an
   existing team. *)
valid(r) ==
    /\ r.op \in postops
    /\ ~lacks(r)
    /\ r.op = "send_team_message" => r.id \in teamids
same(r1, r2) == r1.op = r2.op /\ r1.id = r2.id /\ r1.data = r2.data
(* The id of the record a 201 response carries. *)
answered_id(r, answer) == IF r.op = "send_email" THEN answer.body.email.id ELSE answer.body.id
(* The list an endpoint creates into has one more record after the step. *)
grew(op) ==
    CASE op = "create_user" -> Len(USERS') = Len(USERS) + 1
      [] op = "create_event" -> Len(EVENTS') = Len(EVENTS) + 1
      [] op = "send_email" -> Len(EMAILS') = Len(EMAILS) + 1
      [] op = "send_team_message" -> Len(MESSAGES') = Len(MESSAGES) + 1
isprefix(a, b) == Len(a) <= Len(b) /\ SubSeq(b, 1, Len(a)) = a
increasing(coll) == \A i, j \in 1..Len(coll) : i < j => coll[i].id < coll[j].id
maxid(coll) == CHOOSE x \in ids(coll) : \A y \in ids(coll) : y <= x

(* C1: on every create/send endpoint a valid POST appends exactly one record
   to the endpoint's list and is answered 201, and when the request before it
   was the same valid POST the second answer carries a strictly greater id
   than the first. *)
C1_TwoPostsTwoRecords ==
    [][valid(req') =>
        /\ resp'.status = 201
        /\ grew(req'.op)
        /\ (same(req, req') /\ resp.status = 201) =>
               answered_id(req', resp') > answered_id(req, resp)]_vars

(* C2: with create requests running in parallel, in every reachable state the
   ids of USERS, EVENTS and MESSAGES are strictly increasing in insertion order
   (so pairwise distinct), and no two requests have been answered with the
   same id of the same list. *)
C2_ParallelIdsDistinct ==
    /\ increasing(USERS)
    /\ increasing(EVENTS)
    /\ increasing(MESSAGES)
    /\ \A i, j \in 1..Len(answers) : i # j => answers[i] # answers[j]

(* C3: served one at a time, POST /users with a body holding name answers 201
   with a record whose id is the greatest id in USERS before the request plus
   one, whose email is "" when email is absent and whose role is "user" when
   role is absent, and that record is the last element of USERS afterwards. *)
C3_CreateUserRecord ==
    [][(req'.op = "create_user" /\ "name" \in DOMAIN req'.data.obj) =>
        /\ resp'.status = 201
        /\ resp'.body.id = maxid(USERS) + 1
        /\ resp'.body.name = req'.data.obj["name"]
        /\ "email" \notin DOMAIN req'.data.obj => resp'.body.email = ""
        /\ "role" \notin DOMAIN req'.data.obj => resp'.body.role = "user"
        /\ Len(USERS') = Len(USERS) + 1
        /\ USERS'[Len(USERS')] = resp'.body]_vars

(* The second POST /users of a run, with only a name, was answered 201. *)
C3_Witness ==
    /\ req.op = "create_user"
    /\ DOMAIN req.data.obj = {"name"}
    /\ resp.status = 201
    /\ resp.body.email = "" /\ resp.body.role = "user"
    /\ Len(USERS) = Len(SampleUSERS) + 2

(* C4: POST /teams/{id}/messages with a body holding message, for an id that
   no record of TEAMS has, answers 404 {error: "Team not found"} and leaves
   MESSAGES as it was. *)
C4_UnknownTeamRejected ==
    [][(req'.op = "send_team_message" /\ "message" \in DOMAIN req'.data.obj
        /\ req'.id \notin teamids) =>
        /\ resp'.status = 404
        /\ resp'.body = [error |-> "Team not found"]
        /\ MESSAGES' = MESSAGES]_vars

(* A message for team 999 was rejected after another message had been stored. *)
C4_Witness ==
    /\ req.op = "send_team_message"
    /\ req.id = 999
    /\ "message" \in DOMAIN req.data.obj
    /\ resp.status = 404
    /\ Len(MESSAGES) > Len(SampleMESSAGES)

(* C5: a create/send request whose body is missing, empty or lacks a required
   field answers 400 with a payload that holds error alone ("Name is required"
   for users) and no list changes. *)
C5_MissingFieldRejected ==
    [][(req'.op \in postops /\ lacks(req')) =>
        /\ resp'.status = 400
        /\ DOMAIN resp'.body = {"error"}
        /\ req'.op = "create_user" => resp'.body.error = "Name is required"
        /\ UNCHANGED stores]_vars

(* A message without its text, sent to a team that does not exist, was
   answered 400. *)
C5_Witness ==
    /\ req.op = "send_team_message"
    /\ req.id = 999
    /\ ~req.data.isNone
    /\ DOMAIN req.data.obj = {"from"}
    /\ resp.status = 400

(* The UTC date of a start text: its date moved by its offset from UTC. *)
utcdate(start) ==
    LET dt == fromisoformat(replace(start, "Z", "+00:00"))
    IN  dt.date + ((dt.hour - dt.utcoffset) \div 24)

(* C6: an answer of GET /events/today holds exactly the events of EVENTS, in
   order, whose start has as its UTC date the current date (the date the answer
   reports), and count is their number.  Stated of the answers with status
   200. *)
C6_TodayIsUtcDate ==
    (req.op = "get_today_events" /\ resp.status = 200) =>
        /\ resp.body.events =
               SelectSeq(EVENTS, LAMBDA e : dateisoformat(utcdate(e.start)) = resp.body.date)
        /\ resp.body.count = Len(resp.body.events)

(* C7: GET /events/today answers 200 with a body of events, date and count,
   whatever POST /events requests were answered 201 before it. *)
C7_TodayAlwaysAnswers ==
    req.op = "get_today_events" =>
        /\ resp.status = 200
        /\ DOMAIN resp.body = {"events", "date", "count"}

(* C8: every request leaves every list unchanged or appends exactly one record
   to the end of exactly one list; a GET and a request answered 400 or 404
   change nothing; so every list before a step is a prefix of the list after
   it. *)
C8_AppendOnly ==
    [][/\ \/ UNCHANGED stores
          \/ \E k \in 1..Len(stores) :
                /\ Len(stores'[k]) = Len(stores[k]) + 1
                /\ isprefix(stores[k], stores'[k])
                /\ \A j \in 1..Len(stores) : j # k => stores'[j] = stores[j]
       /\ (req'.method = "GET" \/ resp'.status \in {400, 404}) => UNCHANGED stores
       /\ \A k \in 1..Len(stores) : isprefix(stores[k], stores'[k])]_vars

(* Two lists have grown, and the last request was a rejected POST. *)
C8_Witness ==
    /\ Len(USERS) > Len(SampleUSERS)
    /\ Len(EVENTS) > Len(SampleEVENTS)
    /\ req.method = "POST"
    /\ resp.status = 400

(* C9: every record of MESSAGES has the id of a record of TEAMS as its
   team_id. *)
C9_MessagesReferToTeams ==
    \A i \in 1..Len(MESSAGES) : \E j \in 1..Len(TEAMS) : MESSAGES[i].team_id = TEAMS[j].id

(* Messages were stored, and the last one carries the team of the request. *)
C9_Witness ==
    /\ Len(MESSAGES) = Len(SampleMESSAGES) + 2
    /\ req.op = "send_team_message"
    /\ resp.status = 201
    /\ MESSAGES[Len(MESSAGES)].team_id = req.id

(* C10: USERS, EVENTS, EMAILS and MESSAGES are never empty, and a create/send
   request with its required fields (and an existing team) is never answered
   500. *)
C10_NeverEmpty ==
    /\ USERS # <<>>
    /\ EVENTS # <<>>
    /\ EMAILS # <<>>
    /\ MESSAGES # <<>>
    /\ valid(req) => resp.status # 500

(* An email with its required fields was sent and answered 201. *)
C10_Witness ==
    /\ req.op = "send_email"
    /\ ~lacks(req)
    /\ resp.status = 201
    /\ Appended = MaxAppends

====
